---- MODULE Spec2Model ----
(***************************************************************************)
(* openclaw-warden (src/src/warden.js): the heartbeat monitor              *)
(* (runHeartbeatLoop / runHeartbeatOnce), the daemon supervisor            *)
(* (daemonStart / daemonStop / daemonStatus) and the config sync engine    *)
(* (syncPull / syncPush / validateConfig / atomicCopy /                    *)
(* gitCommitIfChanged).                                                    *)
(*                                                                         *)
(* Spec      the heartbeat loop of one watchdog process                    *)
(* SpecDaemon the daemon:* commands run by external invocations            *)
(* SpecSync  pull / push / validate of one sync process against the file   *)
(*           system and the workspace repository                           *)
(* SpecWatch the debounce of watch mode (watchConfig)                      *)
(***************************************************************************)
EXTENDS Integers, Sequences, FiniteSets, TLC

VARIABLES
  \* ---- heartbeat (runHeartbeatLoop, runHeartbeatOnce) ----
  hb,        \* config.heartbeat as runHeartbeatOnce reads it (lines 826-836)
  hbLoop,    \* position of runHeartbeatLoop: "init", "first" (await tick()), "interval";
             \* "exited" when the process has terminated
  running,   \* the reentrancy flag of runHeartbeatLoop (line 903)
  cyc,       \* the runHeartbeatOnce calls in progress: cycle id -> its frame
  last,      \* history: the frame of the cycle that finished, until the next one starts
  ticks,     \* history: number of calls of tick()
  skipped,   \* history: number of calls of tick() that returned at the guard
  started,   \* history: number of runHeartbeatOnce calls made
  hbNow,     \* the clock of the heartbeat process, in units of which Interval make intervalMs
  hbTimer,   \* the time the interval timer fires next, NoTimer before setInterval is called
  tickTimes, \* history: the times at which tick() was called, in order
  \* ---- daemon supervisor (daemonStart, daemonStop, daemonStatus) ----
  pidFile,   \* the file DAEMON_PID: <<>> when absent, else <<pid>>, its text
  procs,     \* the OS process table: pid -> "none", "warden" (a spawned watchdog), "other"
             \* (an unrelated process of the same user), "foreign" (one of another user)
  inv,       \* the daemon:* command each external invocation is running
  spawned,   \* history: number of background processes spawned by daemonStart
  signals,   \* history: the process.kill(pid, "SIGTERM") calls, in order: the pid and the
             \* process that held it ("none": the call threw, no such process)
  ops,       \* history: number of daemon:* commands invoked
  \* ---- config sync (syncPull, syncPush, validateConfig, atomicCopy, git) ----
  sync,      \* config.git and the schema file: [gitEnabled, autoInit, schema]
  live,      \* content of the live config file
  managed,   \* content of the managed copy (repoConfigPath)
  tmp,       \* the temporary files in the live directory: name -> content
  repo,      \* the repository in the managed copy's directory
  sy,        \* the pull / push the sync process is running
  hist,      \* history of the sync commands
  \* ---- watch mode (watchConfig) ----
  now,       \* the clock, in milliseconds
  timer,     \* watchConfig's `timer`: the deadline of the timeout it last armed, NoTimer for null
  timers,    \* the timeouts that are armed and have not fired: their deadlines
  pushing,   \* the syncPush calls started by the timeout callback and not settled
  watching,  \* the process is alive with its watcher installed
  parked,    \* the other syncPush calls in flight, suspended at their awaits, while `sy` runs
  events     \* history: the notifications, push starts and push ends, in order, with their times

hbVars == <<hb, hbLoop, running, cyc, last, ticks, skipped, started, hbNow, hbTimer, tickTimes>>

dmVars == <<pidFile, procs, inv, spawned, signals, ops>>

syVars == <<sync, live, managed, tmp, repo, sy, hist>>

waVars == <<now, timer, timers, pushing, watching, parked, events>>

vars == <<hb, hbLoop, running, cyc, last, ticks, skipped, started, hbNow, hbTimer, tickTimes,
          pidFile, procs, inv, spawned, signals, ops,
          sync, live, managed, tmp, repo, sy, hist,
          now, timer, timers, pushing, watching, parked, events>>

\* ---------------------------------------------------------------- bounds
MaxWaits == 3      \* longest configured waitSeconds array
MaxTicks == 3      \* number of tick() calls explored
MaxCycleTime == 3  \* longest first cycle explored, in clock units
Interval == 2      \* intervalMs in clock units
MaxPid == 3        \* pids of the process table: 1..MaxPid
MaxOps == 3        \* number of daemon:* commands explored
MaxSyncOps == 2    \* number of pull / push commands explored
MaxClock == 2      \* values of Date.now() explored: 1..MaxClock
MaxNotes == 3      \* number of change notifications explored
MaxRunNotes == 1   \* ... in run mode, next to the heartbeat
MaxPushes == 2     \* syncPush calls of the watcher in flight at once
MaxTime == 400     \* the clock advances freely up to MaxTime
TimeStep == 200    \* granularity of the clock

\* ---------------------------------------------------------------- values
None == "none"

\* Exit codes of a subprocess as the callers tell them apart: 0, and 1 for
\* every code with code !== 0 (non-zero, or null after a signal).
ExitCodes == {0, 1}

\* hb.waitSeconds: an array (isArray, with its items), or anything else (then
\* [30, 40, 50] is used).
NotArray == [isArray |-> FALSE, items |-> <<>>]

WaitArrays == {[isArray |-> TRUE, items |-> [k \in 1..n |-> 30 + 10 * (k - 1)]] : n \in 0..MaxWaits}

DefaultWaitSeconds == <<30, 40, 50>>

\* Command templates are configured (a non-empty string) or not (falsy);
\* paths: whether the configuration file has the `paths` section buildCommand
\* reads (loadConfig merges no defaults into it).
HeartbeatConfigs ==
  [paths : BOOLEAN, sendCommand : BOOLEAN, checkCommand : BOOLEAN,
   agentProbeEnabled : BOOLEAN, agentProbeCommand : BOOLEAN,
   notifyOnRestart : BOOLEAN, notifyCommand : BOOLEAN,
   waitSeconds : WaitArrays \cup {NotArray}]

\* const waitSeconds = Array.isArray(hb.waitSeconds) ? hb.waitSeconds : [30, 40, 50]
waitSeconds == IF hb.waitSeconds.isArray THEN hb.waitSeconds.items ELSE DefaultWaitSeconds

\* ------------------------------------------------- runHeartbeatOnce frames
\* pc: the await the call is suspended at ("send", "sleep", "check", "probe",
\* "restart", "notify") or "done"; i: the loop index (0-based, as in the code);
\* trace: the history of the call, in order: every sleep and subprocess started
\* ("sleep", "send", "check", "probe", "restart", "notify"), how each check and
\* probe subprocess exited ("check-ok", "check-fail", "probe-ok", "probe-fail")
\* and what check() returned ("healthy", "unhealthy"); rc: the exit code of the
\* subprocess that closed last; outcome: how the call returned.
\* (rc is the empty sequence before any subprocess closed, else <<code>>.)
\* slept: history, the seconds of each sleep started, in order.
NewFrame == [pc |-> "start", i |-> 0, trace |-> <<>>, rc |-> <<>>, outcome |-> None, slept |-> <<>>]

\* No finished cycle to show.
NoFrame == [pc |-> None, i |-> 0, trace |-> <<>>, rc |-> <<>>, outcome |-> None, slept |-> <<>>]

\* An exception leaves runHeartbeatOnce: the call's promise is rejected.
Threw(f) == [f EXCEPT !.pc = "threw", !.outcome = "threw"]

\* execShell(buildCommand(...)): buildCommand throws a TypeError on
\* config.paths.repoConfig when the configuration has no `paths`; otherwise
\* one subprocess is spawned and the call awaits its close.
Launch(f, cmd) ==
  IF hb.paths THEN [f EXCEPT !.pc = cmd, !.trace = Append(@, cmd)] ELSE Threw(f)

Returned(f, how) == [f EXCEPT !.pc = "done", !.outcome = how]

\* Mutant of LoopHead: no restart unless at least one check was made.
LoopHead_RestartNeedsCheck(f) ==
  IF f.i < Len(waitSeconds)
    THEN [f EXCEPT !.pc = "sleep", !.trace = Append(@, "sleep"),
                   !.slept = Append(@, waitSeconds[f.i + 1])]
    ELSE IF Len(waitSeconds) = 0 THEN Returned(f, "nocheck")
    ELSE Launch(f, "restart")

\* The head of the for loop at index f.i: sleep, or leave the loop and restart.
LoopHead(f) ==
  IF f.i < Len(waitSeconds)
    THEN [f EXCEPT !.pc = "sleep", !.trace = Append(@, "sleep"),
                   !.slept = Append(@, waitSeconds[f.i + 1])]
    ELSE Launch(f, "restart")

\* Mutant of Begin: a missing check command does not end the cycle.
Begin_WithoutCheck(f) ==
  IF hb.sendCommand THEN Launch(f, "send") ELSE LoopHead(f)

\* From the call to the first await (lines 826-872).
Begin(f) ==
  IF ~hb.checkCommand THEN Returned(f, "nocheck")
  ELSE IF hb.sendCommand THEN Launch(f, "send")
  ELSE LoopHead(f)

\* History only: a subprocess of kind cmd closed with this exit code.
Exited(f, cmd, code) ==
  [f EXCEPT !.rc = <<code>>,
            !.trace = IF cmd = "check" THEN Append(@, IF code = 0 THEN "check-ok" ELSE "check-fail")
                      ELSE IF cmd = "probe" THEN Append(@, IF code = 0 THEN "probe-ok" ELSE "probe-fail")
                      ELSE @]

\* History only: check() returned ok.
Verdict(f, ok) == [f EXCEPT !.trace = Append(@, IF ok THEN "healthy" ELSE "unhealthy")]

\* Mutant of AfterCheck: the gateway is restarted as soon as one attempt fails.
AfterCheck_RestartOnFailure(f, ok) ==
  IF ok THEN Returned(f, "healthy") ELSE Launch([f EXCEPT !.i = @ + 1], "restart")

\* Mutant of AfterCheck: a healthy attempt does not return from the cycle.
AfterCheck_NoEarlyReturn(f, ok) ==
  IF f.i < Len(waitSeconds) - 1 /\ hb.sendCommand
    THEN Launch([f EXCEPT !.i = @ + 1], "send")
    ELSE LoopHead([f EXCEPT !.i = @ + 1])

\* Mutant of AfterCheck: send is run again after every unhealthy attempt, the
\* last one included.
AfterCheck_SendAfterLast(f, ok) ==
  IF ok THEN Returned(f, "healthy")
  ELSE IF hb.sendCommand
    THEN Launch([f EXCEPT !.i = @ + 1], "send")
    ELSE LoopHead([f EXCEPT !.i = @ + 1])

\* const ok = await check(); if (ok) return; if (i < len - 1) if (sendCommand) send()
AfterCheck(f, ok) ==
  IF ok THEN Returned(f, "healthy")
  ELSE IF f.i < Len(waitSeconds) - 1 /\ hb.sendCommand
    THEN Launch([f EXCEPT !.i = @ + 1], "send")
    ELSE LoopHead([f EXCEPT !.i = @ + 1])

\* Mutant of OnSendClose: a failed send ends the cycle.
OnSendClose_AbortOnFailure(f, code) ==
  IF code # 0 THEN Returned(f, "send-failed") ELSE LoopHead(f)

\* send(): if (res.code !== 0) logWarn(...); the caller goes on to the loop head.
OnSendClose(f, code) == LoopHead(f)

\* Mutant of OnCheckClose: the probe is never run, the check alone decides.
OnCheckClose_NoProbe(f, code) == AfterCheck(Verdict(f, code = 0), code = 0)

\* Mutant of OnCheckClose: the probe runs whenever a command is configured,
\* and an enabled probe without a command fails the attempt.
OnCheckClose_ProbeIfConfigured(f, code) ==
  IF code # 0 THEN AfterCheck(Verdict(f, FALSE), FALSE)
  ELSE IF hb.agentProbeCommand THEN Launch(f, "probe")
  ELSE IF hb.agentProbeEnabled THEN AfterCheck(Verdict(f, FALSE), FALSE)
  ELSE AfterCheck(Verdict(f, TRUE), TRUE)

\* check(): after the check command closed (lines 856-864).
OnCheckClose(f, code) ==
  IF code # 0 THEN AfterCheck(Verdict(f, FALSE), FALSE)
  ELSE IF ~hb.agentProbeEnabled THEN AfterCheck(Verdict(f, TRUE), TRUE)
  ELSE IF ~hb.agentProbeCommand THEN AfterCheck(Verdict(f, TRUE), TRUE)
  ELSE Launch(f, "probe")

\* return probeRes.code === 0
OnProbeClose(f, code) == AfterCheck(Verdict(f, code = 0), code = 0)

\* Mutant of OnRestartClose: notify only after a restart that exited 0.
OnRestartClose_NotifyOnSuccess(f, code) ==
  IF hb.notifyOnRestart /\ hb.notifyCommand /\ code = 0
    THEN Launch(f, "notify")
    ELSE Returned(f, "restarted")

\* After the restart command closed (lines 887-897).
OnRestartClose(f, code) ==
  IF hb.notifyOnRestart /\ hb.notifyCommand
    THEN Launch(f, "notify")
    ELSE Returned(f, "restarted")

OnNotifyClose(f, code) == Returned(f, "restarted")

\* ------------------------------------------------------ runHeartbeatLoop
\* Mutant of Guard: tick() is also dropped while a watch-triggered push runs.
Guard_CoversPush == running \/ sy.pc # "idle"

\* Mutant of Guard: no reentrancy guard.
Guard_Off == FALSE

\* if (running) return;
Guard == running

\* A frame after one step taken while runHeartbeatLoop is at `pos`: kept
\* while it awaits; when the call returned, the finally block clears the flag
\* and a returned first tick lets runHeartbeatLoop go on to setInterval. When
\* the call threw, the finally block clears the flag and tick() rejects: the
\* first tick's rejection leaves runHeartbeatLoop and main, whose catch logs
\* it and calls process.exit(1); a timer tick's rejection is handled by
\* nobody, which terminates the process (Node's default for an unhandled
\* rejection).
\* Mutant of Finally: the flag is reset only when runHeartbeatOnce returns.
Finally_OnReturnOnly(f) == f.pc = "threw"

\* finally { running = false; }: the value of the flag when the cycle f has
\* ended, by return or by exception.
Finally(f) == FALSE

Settle(id, f, pos) ==
  IF f.pc = "threw"
    THEN /\ cyc' = <<>>
         /\ last' = f
         /\ running' = Finally(f)
         /\ hbLoop' = "exited"
  ELSE IF f.pc = "done"
    THEN /\ cyc' = [k \in DOMAIN cyc \ {id} |-> cyc[k]]
         /\ last' = f
         /\ running' = Finally(f)
         /\ hbLoop' = IF pos = "first" THEN "interval" ELSE pos
    ELSE /\ cyc' = [k \in DOMAIN cyc \cup {id} |-> IF k = id THEN f ELSE cyc[k]]
         /\ last' = IF id \in DOMAIN cyc THEN last ELSE NoFrame
         /\ running' = TRUE
         /\ hbLoop' = pos

\* const tick = async () => { if (running) return; running = true;
\*   try { await runHeartbeatOnce(config); } finally { running = false; } }
Tick(pos) ==
  /\ ticks' = ticks + 1
  /\ IF Guard
       THEN /\ skipped' = skipped + 1
            /\ hbLoop' = IF pos = "first" THEN "interval" ELSE pos
            /\ UNCHANGED <<running, cyc, last, started>>
       ELSE /\ started' = started + 1
            /\ skipped' = skipped
            /\ Settle(started + 1, Begin(NewFrame), pos)

\* let timer = null (watchConfig); also: setInterval has not been called.
NoTimer == 0

\* Mutant of NextFiring: the timer fires one clock unit late.
NextFiring_Late == hbNow + Interval + 1

\* setInterval(tick, intervalMs): the timer fires intervalMs after it was
\* installed, and then intervalMs after each firing.
NextFiring == hbNow + Interval

\* await tick(); setInterval(tick, intervalMs): the timer is installed when
\* the first tick() has settled.
SetInterval ==
  hbTimer' = IF hbLoop # "interval" /\ hbLoop' = "interval" THEN NextFiring ELSE hbTimer

\* runHeartbeatLoop is called: await tick(); then setInterval(tick, intervalMs)
RunHeartbeatLoop ==
  /\ hbLoop = "init"
  /\ Tick("first")
  /\ SetInterval
  /\ tickTimes' = Append(tickTimes, hbNow)
  /\ UNCHANGED <<hb, hbNow, dmVars, syVars, waVars>>

\* The interval timer fires and calls tick().
TimerTick ==
  /\ hbLoop = "interval"
  /\ ticks < MaxTicks
  /\ hbNow = hbTimer
  /\ Tick(hbLoop)
  /\ hbTimer' = NextFiring
  /\ tickTimes' = Append(tickTimes, hbNow)
  /\ UNCHANGED <<hb, hbNow, dmVars, syVars, waVars>>

\* A step of a suspended runHeartbeatOnce call up to its next await.
Resume(id, f) ==
  /\ Settle(id, f, hbLoop)
  /\ SetInterval
  /\ UNCHANGED <<hb, ticks, skipped, started, hbNow, tickTimes, dmVars, syVars, waVars>>

\* Time passes in the heartbeat process: while the first cycle runs (explored
\* up to MaxCycleTime), and then up to the next firing of the interval timer.
HbAdvance ==
  /\ hbLoop \in {"first", "interval"}
  /\ IF hbTimer = NoTimer THEN hbNow < MaxCycleTime ELSE hbNow < hbTimer /\ ticks < MaxTicks
  /\ hbNow' = hbNow + 1
  /\ UNCHANGED <<hb, hbLoop, running, cyc, last, ticks, skipped, started, hbTimer, tickTimes,
                 dmVars, syVars, waVars>>

\* The send command closes; a failure is only logged (lines 847-850).
SendClose(id) ==
  /\ id \in DOMAIN cyc /\ cyc[id].pc = "send"
  /\ \E code \in ExitCodes : Resume(id, OnSendClose(Exited(cyc[id], "send", code), code))

\* await sleep(waitSeconds[i] * 1000) ends; check() spawns the check command.
SleepDone(id) ==
  /\ id \in DOMAIN cyc /\ cyc[id].pc = "sleep"
  /\ Resume(id, Launch(cyc[id], "check"))

CheckClose(id) ==
  /\ id \in DOMAIN cyc /\ cyc[id].pc = "check"
  /\ \E code \in ExitCodes : Resume(id, OnCheckClose(Exited(cyc[id], "check", code), code))

ProbeClose(id) ==
  /\ id \in DOMAIN cyc /\ cyc[id].pc = "probe"
  /\ \E code \in ExitCodes : Resume(id, OnProbeClose(Exited(cyc[id], "probe", code), code))

RestartClose(id) ==
  /\ id \in DOMAIN cyc /\ cyc[id].pc = "restart"
  /\ \E code \in ExitCodes : Resume(id, OnRestartClose(Exited(cyc[id], "restart", code), code))

NotifyClose(id) ==
  /\ id \in DOMAIN cyc /\ cyc[id].pc = "notify"
  /\ \E code \in ExitCodes : Resume(id, OnNotifyClose(Exited(cyc[id], "notify", code), code))

\* The shell of execShell cannot be spawned (the system is out of processes,
\* descriptors or memory): spawn throws inside the promise executor and the
\* awaiting cycle gets the exception, or the child emits an 'error' event
\* nobody listens to; the process does not survive either.
SpawnFails(id) ==
  /\ id \in DOMAIN cyc /\ cyc[id].pc \in {"send", "check", "probe", "restart", "notify"}
  /\ Resume(id, Threw(cyc[id]))

HbInit ==
  /\ hb \in HeartbeatConfigs
  /\ hbLoop = "init"
  /\ running = FALSE
  /\ cyc = <<>>
  /\ last = NoFrame
  /\ ticks = 0
  /\ skipped = 0
  /\ started = 0
  /\ hbNow = 0
  /\ hbTimer = NoTimer
  /\ tickTimes = <<>>

HbNext ==
  \/ RunHeartbeatLoop
  \/ TimerTick
  \/ HbAdvance
  \/ \E id \in 1..MaxTicks + 1 :
       \/ SendClose(id)
       \/ SleepDone(id)
       \/ CheckClose(id)
       \/ ProbeClose(id)
       \/ RestartClose(id)
       \/ NotifyClose(id)
       \/ SpawnFails(id)

\* The heartbeat at rest, in the specifications of the other components.
HbIdle ==
  /\ hb = [paths |-> TRUE, sendCommand |-> FALSE, checkCommand |-> FALSE,
           agentProbeEnabled |-> FALSE, agentProbeCommand |-> FALSE,
           notifyOnRestart |-> FALSE, notifyCommand |-> FALSE,
           waitSeconds |-> NotArray]
  /\ hbLoop = "init"
  /\ running = FALSE
  /\ cyc = <<>>
  /\ last = NoFrame
  /\ ticks = 0
  /\ skipped = 0
  /\ started = 0
  /\ hbNow = 0
  /\ hbTimer = NoTimer
  /\ tickTimes = <<>>

\* ======================================================================
\* Daemon supervisor
\* ======================================================================
Pids == 1..MaxPid

Invocations == {1, 2}

\* readPid's null (and every falsy pid): no recorded process.
NullPid == 0

\* writePid: the text `${pid}\n`.
PidText(pid) == <<pid>>

\* readPid: Number(raw.trim()), null when the file cannot be read or the text
\* is not a finite number.
ParsePid(text) == IF text = <<>> THEN NullPid ELSE text[1]

\* Mutant of IsProcessAlive: the probe never finds the process.
IsProcessAlive_Never(pid) == FALSE

\* process.kill(pid, sig) succeeds for a process the caller may signal; it
\* throws ESRCH when no process has the pid and EPERM for a process of
\* another user.
Signalable == {"warden", "other"}

\* Mutant of IsProcessAlive: a process the caller may not signal counts as alive.
IsProcessAlive_AnyProcess(pid) == IF pid = NullPid THEN FALSE ELSE procs[pid] # "none"

\* isProcessAlive: if (!pid) return false; try { process.kill(pid, 0); return
\* true } catch { return false }.
IsProcessAlive(pid) == IF pid = NullPid THEN FALSE ELSE procs[pid] \in Signalable

\* An invocation: the command it runs, the await it is suspended at, its local
\* pid (existingPid / pid / child.pid), and what the last command reported.
IdleInvocation == [cmd |-> None, pc |-> "idle", pid |-> NullPid, res |-> None]

Finished(v, res) == [v EXCEPT !.pc = "idle", !.res = res]

\* The operator runs `daemon:start`, `daemon:stop` or `daemon:status`.
CliInvoke(n, cmd) ==
  /\ inv[n].pc = "idle"
  /\ ops < MaxOps
  /\ ops' = ops + 1
  /\ inv' = [inv EXCEPT ![n] = [cmd |-> cmd, pc |-> "read", pid |-> NullPid, res |-> None]]
  /\ UNCHANGED <<pidFile, procs, spawned, signals, hbVars, syVars, waVars>>

\* const existingPid = await readPid()   (all three commands start with it)
ReadPid(n) ==
  /\ inv[n].pc = "read"
  /\ inv' = [inv EXCEPT ![n].pid = ParsePid(pidFile),
                        ![n].pc = IF inv[n].cmd = "stop" THEN "kill" ELSE "probe"]
  /\ UNCHANGED <<pidFile, procs, spawned, signals, ops, hbVars, syVars, waVars>>

\* Mutant of ExistingPid: the record is read again when the process is probed.
ExistingPid_ReadAtProbe(n) == ParsePid(pidFile)

\* const existingPid = await readPid(): the pid read before the probe.
ExistingPid(n) == inv[n].pid

\* daemonStart: if (existingPid && isProcessAlive(existingPid)) { log; return; }
StartProbe(n) ==
  /\ inv[n].cmd = "start" /\ inv[n].pc = "probe"
  /\ inv' = [inv EXCEPT ![n] = IF IsProcessAlive(ExistingPid(n))
                                 THEN Finished(@, "already-running")
                                 ELSE [@ EXCEPT !.pc = "spawn"]]
  /\ UNCHANGED <<pidFile, procs, spawned, signals, ops, hbVars, syVars, waVars>>

\* daemonStart: spawn(process.execPath, [..., "run"], {detached: true, ...});
\* the OS gives the child a pid no process holds.
StartSpawn(n) ==
  /\ inv[n].cmd = "start" /\ inv[n].pc = "spawn"
  /\ \E child \in Pids :
       /\ procs[child] = "none"
       /\ procs' = [procs EXCEPT ![child] = "warden"]
       /\ inv' = [inv EXCEPT ![n].pid = child, ![n].pc = "write"]
  /\ spawned' = spawned + 1
  /\ UNCHANGED <<pidFile, signals, ops, hbVars, syVars, waVars>>

\* Mutant of WritePid: an existing record is not overwritten.
WritePid_KeepsExisting(pid) == IF pidFile = <<>> THEN PidText(pid) ELSE pidFile

\* writePid: writeFile(DAEMON_PID, `${pid}\n`) replaces whatever the file held.
WritePid(pid) == PidText(pid)

\* daemonStart: await writePid(child.pid); child.unref(); log
StartWrite(n) ==
  /\ inv[n].cmd = "start" /\ inv[n].pc = "write"
  /\ pidFile' = WritePid(inv[n].pid)
  /\ inv' = [inv EXCEPT ![n] = Finished(@, "started")]
  /\ UNCHANGED <<procs, spawned, signals, ops, hbVars, syVars, waVars>>

\* Mutant of Signalled: the signalled process is gone when kill returns.
Signalled_Synchronous(pid) ==
  IF procs[pid] \in Signalable THEN [procs EXCEPT ![pid] = "none"] ELSE procs

\* process.kill(pid, "SIGTERM"): the processes when the call has returned or
\* thrown. The signal is queued for its target, or not sent at all (ESRCH,
\* EPERM); no process has exited yet.
Signalled(pid) == procs

\* daemonStop: if (!pid) { warn; return; } try { process.kill(pid, "SIGTERM") } catch { warn }
StopKill(n) ==
  /\ inv[n].cmd = "stop" /\ inv[n].pc = "kill"
  /\ IF inv[n].pid = NullPid
       THEN /\ inv' = [inv EXCEPT ![n] = Finished(@, "not-found")]
            /\ UNCHANGED signals
       ELSE /\ inv' = [inv EXCEPT ![n].pc = "clear"]
            /\ signals' = Append(signals, [pid |-> inv[n].pid, to |-> procs[inv[n].pid]])
  /\ procs' = IF inv[n].pid = NullPid THEN procs ELSE Signalled(inv[n].pid)
  /\ UNCHANGED <<pidFile, spawned, ops, hbVars, syVars, waVars>>

\* Mutant of ClearPid: the record is left in place.
ClearPid_Keeps == pidFile

\* clearPid: unlink(DAEMON_PID), errors ignored: no pid file afterwards.
ClearPid == <<>>

\* daemonStop: await clearPid(); log "Daemon stopped"
StopClear(n) ==
  /\ inv[n].cmd = "stop" /\ inv[n].pc = "clear"
  /\ pidFile' = ClearPid
  /\ inv' = [inv EXCEPT ![n] = Finished(@, "stopped")]
  /\ UNCHANGED <<procs, spawned, signals, ops, hbVars, syVars, waVars>>

\* Mutant of StatusReport: a record alone counts as running, without the probe.
StatusReport_RecordOnly(n) == IF inv[n].pid # NullPid THEN "running" ELSE "not-running"

\* daemonStatus: if (pid && isProcessAlive(pid)) "running" else "not running"
StatusReport(n) == IF IsProcessAlive(inv[n].pid) THEN "running" ELSE "not-running"

\* daemonStatus: the probe and the log line.
StatusProbe(n) ==
  /\ inv[n].cmd = "status" /\ inv[n].pc = "probe"
  /\ inv' = [inv EXCEPT ![n] = Finished(@, StatusReport(n))]
  /\ UNCHANGED <<pidFile, procs, spawned, signals, ops, hbVars, syVars, waVars>>

\* A process exits: after the SIGTERM sent to it, or by itself.
ProcessExit(pid) ==
  /\ procs[pid] # "none"
  /\ procs' = [procs EXCEPT ![pid] = "none"]
  /\ UNCHANGED <<pidFile, inv, spawned, signals, ops, hbVars, syVars, waVars>>

\* The OS gives a free pid to an unrelated process, of this user or another.
OtherProcessStarts(pid) ==
  /\ procs[pid] = "none"
  /\ \E owner \in {"other", "foreign"} : procs' = [procs EXCEPT ![pid] = owner]
  /\ UNCHANGED <<pidFile, inv, spawned, signals, ops, hbVars, syVars, waVars>>

\* No daemon:* command is running and none was run.
DmIdle ==
  /\ pidFile = <<>>
  /\ procs = [p \in Pids |-> "none"]
  /\ inv = [n \in Invocations |-> IdleInvocation]
  /\ spawned = 0
  /\ signals = <<>>
  /\ ops = 0

\* Before the first command: no record, or the record a watchdog started
\* earlier left behind, with that pid free, held by the watchdog or reused.
DmInit ==
  /\ pidFile \in {<<>>} \cup {PidText(p) : p \in Pids}
  /\ procs \in [Pids -> {"none", "warden", "other", "foreign"}]
  /\ \A p \in Pids : procs[p] = "warden" => pidFile = PidText(p)
  /\ inv = [n \in Invocations |-> IdleInvocation]
  /\ spawned = 0
  /\ signals = <<>>
  /\ ops = 0

DmNext ==
  \/ \E n \in Invocations :
       \/ \E cmd \in {"start", "stop", "status"} : CliInvoke(n, cmd)
       \/ ReadPid(n)
       \/ StartProbe(n)
       \/ StartSpawn(n)
       \/ StartWrite(n)
       \/ StopKill(n)
       \/ StopClear(n)
       \/ StatusProbe(n)
  \/ \E pid \in Pids :
       \/ ProcessExit(pid)
       \/ OtherProcessStarts(pid)

\* ======================================================================
\* Config sync
\* ======================================================================
\* File contents: a config that satisfies the schema, one that is not
\* well-formed JSON, one that is well-formed and violates the schema.
Contents == {"A", "malformed", "invalid"}

\* No file at the path.
Absent == "absent"

\* A file that copyFile has created or truncated and not yet written in full.
Partial == "partial"

\* JSON.parse(raw) succeeds (a partly written config is not well-formed).
WellFormed(raw) == raw \in {"A", "invalid"}

\* validate(json) of the compiled schema.
SchemaValid(raw) == raw = "A"

\* The places where a well-formed config breaks the schema: none for a
\* conforming one; the non-conforming config of the model breaks it in two.
Violations(raw) == IF raw = "invalid" THEN {"v1", "v2"} ELSE {}

\* Mutant of ReportedErrors: validation stops at the first violation.
ReportedErrors_FirstOnly(raw) == IF Violations(raw) = {} THEN {} ELSE {"v1"}

\* new Ajv({allErrors: true, ...}): validate.errors holds every violation, and
\* the error message has one line for each.
ReportedErrors(raw) == Violations(raw)

\* atomicCopy names its temporary file by Date.now().
TempNames == 1..MaxClock

\* The repository of the managed copy's directory: whether .git exists; the
\* managed copy's content in the last commit (head) and in the index; one
\* other file of the directory: whether its `git status` line contains the
\* managed copy's name, and whether it is clean, dirty (untracked or changed
\* and not staged) or staged. commits: history, the number of commits made
\* by the sync process; lastCommit: the files of the last of them.
NoRepo == [exists |-> FALSE, head |-> Absent, index |-> Absent,
           other |-> [match |-> FALSE, state |-> "clean"]]

\* (A dirty file whose line does not contain the name acts as a clean one.)
OtherFiles ==
  {[match |-> FALSE, state |-> "clean"], [match |-> TRUE, state |-> "dirty"],
   [match |-> FALSE, state |-> "staged"], [match |-> TRUE, state |-> "staged"]}

\* The sync command in progress: cmd ("pull" / "push"), pc: the await it is
\* suspended at, raw: what validateConfig read, buf: what copyFile read,
\* tempPath: atomicCopy's temporary file, clock: the Date.now() it was named
\* after (in watch mode), res: how the last command ended.
\* listed: the violations the schema validation error lists.
IdleSync == [cmd |-> None, pc |-> "idle", raw |-> Absent, buf |-> Absent, tempPath |-> 0, clock |-> 0,
             res |-> None, listed |-> {}]

\* History of the sync commands: n commands invoked; commits made and the
\* files of the last one; liveAt: the live content when the current command
\* started; did: what the current command has done so far ("tmp": created a
\* temporary file, "live": wrote the live path, "managed": wrote the managed
\* copy, "git": ran a git command, "commit": made a commit); pulled: the live
\* content the last completed pull copied while the managed copy has not been
\* edited since (else Absent).
NoHist == [n |-> 0, commits |-> 0, lastCommit |-> {}, liveAt |-> Absent, did |-> {},
           pulled |-> Absent]

\* The command returned (or threw).
SyncDone(res) ==
  sy' = [sy EXCEPT !.pc = "idle", !.res = res, !.buf = Absent, !.tempPath = 0, !.clock = 0]

\* `git status --porcelain` has a line for the managed copy.
ManagedStatusLine == repo.index # repo.head \/ managed # repo.index

\* Mutant of StatusChanged: only the managed copy's own line counts.
StatusChanged_ExactPath == ManagedStatusLine

\* gitCommitIfChanged: some line of the status output includes the file's name.
StatusChanged ==
  \/ ManagedStatusLine
  \/ (repo.other.state # "clean" /\ repo.other.match)

\* `git commit` has something to commit.
SomethingStaged == repo.index # repo.head \/ repo.other.state = "staged"

\* if (config.git?.enabled) { gitReady = await ensureGitRepo(...); if (gitReady) gitCommitIfChanged }
\* up to the first git command.
ThenGit ==
  IF ~sync.gitEnabled THEN SyncDone("ok")
  ELSE IF repo.exists THEN sy' = [sy EXCEPT !.pc = "git:status"]
  ELSE IF sync.autoInit THEN sy' = [sy EXCEPT !.pc = "git:init"]
  ELSE SyncDone("ok")

\* Mutant of LiveExists: syncPull does not check for the live file.
LiveExists_Unchecked == TRUE

\* syncPull: fs.existsSync(liveConfigPath)
LiveExists == live # Absent

\* The operator (or the watcher) runs pull, push or validate.
\* syncPull: if (!fs.existsSync(liveConfigPath)) throw; await ensureDir(...)
\* syncPush: await validateConfig(config) -> await fsp.readFile(repoConfigPath)
BeginSync(cmd) ==
  /\ hist' = [hist EXCEPT !.n = @ + 1, !.liveAt = live, !.did = {}]
  /\ sy' = IF cmd = "pull" /\ ~LiveExists
             THEN [IdleSync EXCEPT !.cmd = cmd, !.res = "live-missing"]
             ELSE [IdleSync EXCEPT !.cmd = cmd, !.pc = IF cmd = "pull" THEN "pull:ensureDir" ELSE "validate:read"]

SyncInvoke(cmd) ==
  /\ sy.pc = "idle"
  /\ hist.n < MaxSyncOps
  /\ BeginSync(cmd)
  /\ UNCHANGED <<sync, live, managed, tmp, repo, hbVars, dmVars, waVars>>

\* validateConfig: raw = await readFile(repoConfigPath); JSON.parse(raw);
\* loadSchema: existsSync(schemaPath), then await readJson(schemaPath).
ValidateRead ==
  /\ sy.pc = "validate:read"
  /\ IF managed = Absent THEN sy' = [sy EXCEPT !.pc = "idle", !.res = "read-failed"]
     ELSE IF ~WellFormed(managed) THEN sy' = [sy EXCEPT !.pc = "idle", !.res = "malformed", !.raw = managed]
     ELSE IF sync.schema = "missing" THEN sy' = [sy EXCEPT !.pc = "idle", !.res = "schema-missing", !.raw = managed]
     ELSE sy' = [sy EXCEPT !.pc = "validate:schema", !.raw = managed]
  /\ UNCHANGED <<sync, live, managed, tmp, repo, hist, hbVars, dmVars, waVars>>

\* Mutant of ValidationPasses: schema violations are not checked.
ValidationPasses_Always(raw) == TRUE

\* validateConfig: const ok = validate(json); if (!ok) throw ...; return true
ValidationPasses(raw) == SchemaValid(raw)

\* validateConfig returns or throws; syncPush goes on to atomicCopy: await
\* ensureDir(dir); the validate command logs "Config is valid." and returns.
ValidateSchema ==
  /\ sy.pc = "validate:schema"
  /\ IF ValidationPasses(sy.raw)
       THEN IF sy.cmd = "validate" THEN SyncDone("ok") ELSE sy' = [sy EXCEPT !.pc = "copy:ensureDir"]
       ELSE sy' = [sy EXCEPT !.pc = "idle", !.res = "schema-violation",
                             !.listed = ReportedErrors(sy.raw)]
  /\ UNCHANGED <<sync, live, managed, tmp, repo, hist, hbVars, dmVars, waVars>>

\* atomicCopy: tempPath = join(dir, `.${basename}.tmp-${Date.now()}`); copyFile is issued.
\* (Two pushes of one watcher get the same name only at the same clock value.)
\* syncPull: copyFile(liveConfigPath, repoConfigPath) is issued.
EnsureDirDone ==
  /\ sy.pc \in {"copy:ensureDir", "pull:ensureDir"}
  /\ IF sy.cmd = "push"
       THEN \E t \in TempNames :
              /\ \A i \in 1..Len(parked) : parked[i].tempPath = t => parked[i].clock = now
              /\ sy' = [sy EXCEPT !.pc = "copy:open", !.tempPath = t, !.clock = now]
       ELSE sy' = [sy EXCEPT !.pc = "copy:open"]
  /\ UNCHANGED <<sync, live, managed, tmp, repo, hist, hbVars, dmVars, waVars>>

\* Mutant of CopyDest: atomicCopy writes straight onto the live file.
CopyDest_Direct == IF sy.cmd = "push" THEN "live" ELSE "managed"

\* The file copyFile writes: atomicCopy's temporary file, syncPull's managed copy.
CopyDest == IF sy.cmd = "push" THEN "tmp" ELSE "managed"

\* Mutant of CopySource: syncPull reads the managed path instead of the live path.
CopySource_PullFromManaged == managed

\* The file copyFile reads: atomicCopy's srcPath (the managed copy), syncPull's live file.
CopySource == IF sy.cmd = "push" THEN managed ELSE live

\* copyFile opens the source and creates or truncates the destination.
CopyOpen ==
  /\ sy.pc = "copy:open"
  /\ IF CopySource = Absent
       THEN /\ SyncDone("copy-failed")
            /\ UNCHANGED <<live, managed, tmp>>
       ELSE /\ sy' = [sy EXCEPT !.pc = "copy:write", !.buf = CopySource]
            /\ live' = IF CopyDest = "live" THEN Partial ELSE live
            /\ managed' = IF CopyDest = "managed" THEN Partial ELSE managed
            /\ tmp' = IF CopyDest = "tmp" THEN [tmp EXCEPT ![sy.tempPath] = Partial] ELSE tmp
  /\ hist' = IF CopySource = Absent THEN hist
             ELSE [hist EXCEPT !.did = @ \cup {CopyDest},
                               !.pulled = IF CopyDest = "managed" THEN Absent ELSE @]
  /\ UNCHANGED <<sync, repo, hbVars, dmVars, waVars>>

\* copyFile has written the destination in full.
\* atomicCopy then issues rename(tempPath, destPath); syncPull goes on to git.
CopyWritten ==
  /\ sy.pc = "copy:write"
  /\ live' = IF CopyDest = "live" THEN sy.buf ELSE live
  /\ managed' = IF CopyDest = "managed" THEN sy.buf ELSE managed
  /\ tmp' = IF CopyDest = "tmp" THEN [tmp EXCEPT ![sy.tempPath] = sy.buf] ELSE tmp
  /\ IF sy.cmd = "push"
       THEN /\ sy' = [sy EXCEPT !.pc = "copy:rename"]
            /\ UNCHANGED hist
       ELSE /\ ThenGit
            /\ hist' = [hist EXCEPT !.pulled = live]
  /\ UNCHANGED <<sync, repo, hbVars, dmVars, waVars>>

\* atomicCopy: await fsp.rename(tempPath, destPath); syncPush goes on to git.
RenameDone ==
  /\ sy.pc = "copy:rename"
  /\ IF CopyDest = "tmp"
       THEN IF tmp[sy.tempPath] = Absent
              THEN SyncDone("copy-failed") /\ UNCHANGED <<live, tmp, hist>>
              ELSE /\ live' = tmp[sy.tempPath]
                   /\ tmp' = [tmp EXCEPT ![sy.tempPath] = Absent]
                   /\ hist' = [hist EXCEPT !.did = @ \cup {"live"}]
                   /\ ThenGit
       ELSE ThenGit /\ UNCHANGED <<live, tmp, hist>>
  /\ UNCHANGED <<sync, managed, repo, hbVars, dmVars, waVars>>

\* Mutant of GitFailed: a failed git command makes the pull / push throw.
GitFailed_Throws == SyncDone("git-failed")

\* A git command exited non-zero: logWarn, and ensureGitRepo returns false /
\* gitCommitIfChanged returns; the pull / push returns normally.
GitFailed == SyncDone("ok")

\* ensureGitRepo: `git init` closed.
GitInitClose ==
  /\ sy.pc = "git:init"
  /\ \E code \in ExitCodes :
       IF code # 0
         THEN GitFailed /\ UNCHANGED repo
         ELSE /\ sy' = [sy EXCEPT !.pc = "git:status"]
              /\ repo' = [repo EXCEPT !.exists = TRUE]
  /\ hist' = [hist EXCEPT !.did = @ \cup {"git"}]
  /\ UNCHANGED <<sync, live, managed, tmp, hbVars, dmVars, waVars>>

\* gitCommitIfChanged: `git status --porcelain` closed.
GitStatusClose ==
  /\ sy.pc = "git:status"
  /\ \E code \in ExitCodes :
       IF code # 0 THEN GitFailed
       ELSE IF ~StatusChanged THEN SyncDone("ok")
       ELSE sy' = [sy EXCEPT !.pc = "git:add"]
  /\ hist' = [hist EXCEPT !.did = @ \cup {"git"}]
  /\ UNCHANGED <<sync, live, managed, tmp, repo, hbVars, dmVars, waVars>>

\* gitCommitIfChanged: `git add "<managed copy>"` closed.
GitAddClose ==
  /\ sy.pc = "git:add"
  /\ \E code \in ExitCodes :
       /\ (managed = Absent /\ repo.index = Absent) => code # 0
       /\ IF code # 0
            THEN GitFailed /\ UNCHANGED repo
            ELSE /\ sy' = [sy EXCEPT !.pc = "git:commit"]
                 /\ repo' = [repo EXCEPT !.index = managed]
  /\ UNCHANGED <<sync, live, managed, tmp, hist, hbVars, dmVars, waVars>>

\* gitCommitIfChanged: `git commit -m "<message>"` closed.
GitCommitClose ==
  /\ sy.pc = "git:commit"
  /\ \E code \in ExitCodes :
       /\ ~SomethingStaged => code # 0
       /\ IF code # 0
            THEN GitFailed /\ UNCHANGED <<repo, hist>>
            ELSE /\ SyncDone("ok")
                 /\ repo' = [repo EXCEPT !.head = repo.index,
                                         !.other = IF @.state = "staged"
                                                     THEN [match |-> FALSE, state |-> "clean"] ELSE @]
                 /\ hist' = [hist EXCEPT !.commits = @ + 1,
                                         !.did = @ \cup {"commit"},
                                         !.lastCommit =
                                            (IF repo.index # repo.head THEN {"managed"} ELSE {})
                                            \cup (IF repo.other.state = "staged" THEN {"other"} ELSE {})]
  /\ UNCHANGED <<sync, live, managed, tmp, hbVars, dmVars, waVars>>

\* The sync process is interrupted (killed) at an await.
Interrupt ==
  /\ sy.pc # "idle"
  /\ SyncDone("killed")
  /\ UNCHANGED <<sync, live, managed, tmp, repo, hist, hbVars, dmVars, waVars>>

\* Another actor (the operator's editor) rewrites the managed copy.
EditManaged(c) ==
  /\ c # managed
  /\ managed' = c
  /\ hist' = [hist EXCEPT !.pulled = Absent]
  /\ UNCHANGED <<sync, live, tmp, repo, sy, hbVars, dmVars, waVars>>

\* No sync command is running and none was run.
SyIdle ==
  /\ sync = [gitEnabled |-> FALSE, autoInit |-> FALSE, schema |-> "present"]
  /\ live = Absent
  /\ managed = Absent
  /\ tmp = [t \in TempNames |-> Absent]
  /\ repo = NoRepo
  /\ sy = IdleSync
  /\ hist = NoHist

\* Before the first command: any live file and managed copy, no temporary
\* file; no repository yet (then no file is staged), or one in which the
\* managed copy is committed or untracked and not staged.
SyInit ==
  /\ sync \in [gitEnabled : BOOLEAN, autoInit : BOOLEAN, schema : {"present", "missing"}]
  /\ live \in Contents \cup {Absent}
  /\ managed \in Contents \cup {Absent}
  /\ tmp = [t \in TempNames |-> Absent]
  /\ repo \in [exists : BOOLEAN, head : Contents \cup {Absent}, index : Contents \cup {Absent},
               other : OtherFiles]
  /\ repo.index = repo.head
  /\ ~repo.exists => (repo.head = Absent /\ repo.other.state # "staged")
  /\ ~sync.gitEnabled => (~sync.autoInit /\ repo = NoRepo)
  /\ sy = IdleSync
  /\ hist = NoHist

SyNext ==
  \/ \E cmd \in {"pull", "push", "validate"} : SyncInvoke(cmd)
  \/ ValidateRead
  \/ ValidateSchema
  \/ EnsureDirDone
  \/ CopyOpen
  \/ CopyWritten
  \/ RenameDone
  \/ GitInitClose
  \/ GitStatusClose
  \/ GitAddClose
  \/ GitCommitClose
  \/ Interrupt
  \/ \E c \in Contents : EditManaged(c)

\* ======================================================================
\* Watch mode
\* ======================================================================
\* setTimeout(..., 400): the debounce window, in milliseconds.
DebounceMs == 400

\* Mutant of ClearTimeout: the pending timeout is not cancelled.
ClearTimeout_Nothing(armed, t) == armed

\* if (timer) clearTimeout(timer): cancels the timeout when it has not fired
\* yet, does nothing for null and for a timeout that has fired.
ClearTimeout(armed, t) == IF t # NoTimer THEN armed \ {t} ELSE armed

Notifications == {i \in 1..Len(events) : events[i].kind = "note"}

PushStarts == {i \in 1..Len(events) : events[i].kind = "push"}

\* Mutant of Schedule: a notification that arrives while a push is running
\* arms no timeout.
Schedule_NotWhilePushing ==
  /\ timers' = IF pushing > 0 THEN timers ELSE ClearTimeout(timers, timer) \cup {now + DebounceMs}
  /\ timer' = IF pushing > 0 THEN timer ELSE now + DebounceMs
  /\ events' = Append(events, [kind |-> "note", t |-> now])

\* schedule(): `if (timer) clearTimeout(timer); timer = setTimeout(..., 400)`.
Schedule ==
  /\ timers' = ClearTimeout(timers, timer) \cup {now + DebounceMs}
  /\ timer' = now + DebounceMs
  /\ events' = Append(events, [kind |-> "note", t |-> now])

\* fs.watch calls back for a change of the managed copy: schedule() cancels
\* the pending timeout and arms a new one, DebounceMs from now. (A further
\* notification for a change already notified: one save often makes several.)
Notify ==
  /\ watching
  /\ Cardinality(Notifications) < MaxNotes
  /\ Schedule
  /\ UNCHANGED <<now, pushing, watching, parked, hbVars, dmVars, syVars>>

\* The operator's editor rewrites the managed copy in place and fs.watch
\* calls back for it.
WatchedEdit(c) ==
  /\ watching
  /\ Cardinality(Notifications) < MaxNotes
  /\ c # managed
  /\ managed' = c
  /\ Schedule
  /\ UNCHANGED <<now, pushing, watching, parked, sync, live, tmp, repo, sy, hist, hbVars, dmVars>>

\* A timeout fires, not before its deadline: its callback calls syncPush and
\* awaits it inside try / catch, whether or not the push of an earlier
\* timeout has settled: that one stays suspended at its await. (Explored up
\* to MaxPushes in flight: past that the timeout fires late.)
TimerFires(d) ==
  /\ watching
  /\ d \in timers
  /\ now >= d
  /\ pushing < MaxPushes
  /\ timers' = timers \ {d}
  /\ pushing' = pushing + 1
  /\ parked' = IF pushing = 0 THEN parked ELSE Append(parked, sy)
  /\ events' = Append(events, [kind |-> "push", t |-> now])
  /\ BeginSync("push")
  /\ UNCHANGED <<now, timer, watching, sync, live, managed, tmp, repo, hbVars, dmVars>>

\* The event loop resumes another push in flight: its I/O has completed.
Switch(i) ==
  /\ i \in 1..Len(parked)
  /\ parked[i].pc # "idle"
  /\ sy' = parked[i]
  /\ parked' = [parked EXCEPT ![i] = sy]
  /\ UNCHANGED <<now, timer, timers, pushing, watching, events, sync, live, managed, tmp, repo,
                 hist, hbVars, dmVars>>

\* Mutant of Caught: the rejection of syncPush escapes the callback and ends
\* the process.
Caught_Rethrown(res) == res = "ok"

\* try { await syncPush(config); logInfo(...) } catch (err) { logError(...) }:
\* whatever syncPush did, the callback returns and the process goes on.
Caught(res) == TRUE

\* The awaited syncPush returns ("Applied config after change.") or throws
\* (the catch logs the error); the callback ends either way.
PushSettles ==
  /\ pushing > 0
  /\ \E i \in 0..Len(parked) :
       LET f == IF i = 0 THEN sy ELSE parked[i]
           rest == [k \in 1..Len(parked) - 1 |-> IF k < i THEN parked[k] ELSE parked[k + 1]]
       IN /\ f.pc = "idle"
          /\ watching' = Caught(f.res)
          /\ events' = Append(events, [kind |-> IF f.res = "ok" THEN "applied" ELSE "failed",
                                        t |-> now])
          /\ sy' = IF i = 0 /\ parked # <<>> THEN Head(parked) ELSE sy
          /\ parked' = IF parked = <<>> THEN <<>> ELSE IF i = 0 THEN Tail(parked) ELSE rest
  /\ pushing' = pushing - 1
  /\ UNCHANGED <<now, timer, timers, sync, live, managed, tmp, repo, hist, hbVars, dmVars>>

\* Time passes. (Explored while a timeout is armed; past MaxTime only up to
\* its deadline.)
Advance ==
  /\ timers # {}
  /\ now < MaxTime \/ \E d \in timers : now < d
  /\ now' = now + TimeStep
  /\ UNCHANGED <<timer, timers, pushing, watching, parked, events, hbVars, dmVars, syVars>>

\* Watch mode is not running.
WaIdle ==
  /\ now = 0
  /\ timer = NoTimer
  /\ timers = {}
  /\ pushing = 0
  /\ watching = FALSE
  /\ parked = <<>>
  /\ events = <<>>

\* watchConfig has returned: the watcher is installed, no timeout is armed.
WaInit ==
  /\ now = 0
  /\ timer = NoTimer
  /\ timers = {}
  /\ pushing = 0
  /\ watching = TRUE
  /\ parked = <<>>
  /\ events = <<>>

\* The managed copy exists (watchConfig throws when it does not); git is off,
\* or on with a repository in which the managed copy is committed, or on with
\* autoInit and no repository yet.
SyWatched ==
  /\ sync \in [gitEnabled : BOOLEAN, autoInit : BOOLEAN, schema : {"present"}]
  /\ live = "invalid"
  /\ managed \in Contents
  /\ tmp = [t \in TempNames |-> Absent]
  /\ repo \in {NoRepo, [NoRepo EXCEPT !.exists = TRUE, !.head = managed, !.index = managed]}
  /\ sync.gitEnabled => (sync.autoInit <=> repo = NoRepo)
  /\ ~sync.gitEnabled => (~sync.autoInit /\ repo = NoRepo)
  /\ sy = IdleSync
  /\ hist = NoHist

\* The steps of the syncPush the timeout callback awaits.
PushStep ==
  \/ ValidateRead
  \/ ValidateSchema
  \/ EnsureDirDone
  \/ CopyOpen
  \/ CopyWritten
  \/ RenameDone
  \/ GitInitClose
  \/ GitStatusClose
  \/ GitAddClose
  \/ GitCommitClose

WaNext ==
  \/ Notify
  \/ \E c \in Contents : WatchedEdit(c)
  \/ \E d \in timers : TimerFires(d)
  \/ PushStep
  \/ \E i \in 1..MaxPushes : Switch(i)
  \/ PushSettles
  \/ Advance

Init == HbInit /\ DmIdle /\ SyIdle /\ WaIdle

Next == HbNext

Spec == Init /\ [][Next]_vars

DaemonInit == HbIdle /\ DmInit /\ SyIdle /\ WaIdle

SpecDaemon == DaemonInit /\ [][DmNext]_vars

SyncInit == HbIdle /\ DmIdle /\ SyInit /\ WaIdle

SpecSync == SyncInit /\ [][SyNext]_vars

WatchInit == HbIdle /\ DmIdle /\ SyWatched /\ WaInit

SpecWatch == WatchInit /\ [][WaNext]_vars

\* `warden run`: await watchConfig(config); await runHeartbeatLoop(config).
\* main is about to call watchConfig; the managed copy exists or not; every
\* heartbeat command is configured, with one wait entry; git is on with
\* autoInit and no repository yet.
RunInit ==
  /\ HbInit /\ DmIdle /\ SyInit /\ WaIdle
  /\ hb = [paths |-> TRUE, sendCommand |-> TRUE, checkCommand |-> TRUE,
           agentProbeEnabled |-> TRUE, agentProbeCommand |-> TRUE,
           notifyOnRestart |-> TRUE, notifyCommand |-> TRUE,
           waitSeconds |-> [isArray |-> TRUE, items |-> <<30>>]]
  /\ sync = [gitEnabled |-> TRUE, autoInit |-> TRUE, schema |-> "present"]
  /\ repo = NoRepo
  /\ managed \in {"A", Absent}
  /\ live = "invalid"

\* Mutant of RepoConfigMissing: watchConfig does not look for the file.
RepoConfigMissing_Ignored == FALSE

\* watchConfig: !fs.existsSync(repoConfigPath)
RepoConfigMissing == managed = Absent

\* main, case "run": await watchConfig(config). It throws when the managed
\* copy is missing: main rejects and main().catch logs and calls
\* process.exit(1); else the watcher is installed and main goes on to
\* runHeartbeatLoop.
WatchConfig ==
  /\ hbLoop = "init"
  /\ ~watching
  /\ IF RepoConfigMissing
       THEN hbLoop' = "exited" /\ watching' = FALSE
       ELSE hbLoop' = hbLoop /\ watching' = TRUE
  /\ UNCHANGED <<hb, running, cyc, last, ticks, skipped, started, hbNow, hbTimer, tickTimes,
                 now, timer, timers, pushing, parked, events, dmVars, syVars>>

\* The watcher's callbacks in run mode. (With one notification explored, one
\* push is in flight at most.)
RunWatch ==
  \/ Cardinality(Notifications) < MaxRunNotes /\ Notify
  \/ Cardinality(Notifications) < MaxRunNotes /\ \E c \in Contents : WatchedEdit(c)
  \/ \E d \in timers : TimerFires(d)
  \/ PushStep
  \/ PushSettles
  \/ Advance

\* The event loop runs no callback of the watcher before runHeartbeatLoop has
\* been called (nothing yields to it in between), and none once the process
\* has exited.
RunNext ==
  \/ WatchConfig
  \/ watching /\ HbNext
  \/ hbLoop \notin {"init", "exited"} /\ RunWatch

SpecRun == RunInit /\ [][RunNext]_vars

\* Watch mode started on an invalid managed copy, with git on, autoInit and
\* no repository yet.
WatchLiveInit ==
  /\ HbIdle /\ DmIdle /\ SyWatched /\ WaInit
  /\ sync.gitEnabled /\ sync.autoInit
  /\ managed = "invalid"

\* The event loop runs a timeout that is due and the continuation of I/O
\* that has completed; time passes.
WatchFairness ==
  /\ WF_vars(Advance)
  /\ WF_vars(\E d \in timers : TimerFires(d))
  /\ WF_vars(PushStep)
  /\ WF_vars(PushSettles)

SpecWatchLive == WatchLiveInit /\ [][WaNext]_vars /\ WatchFairness

\* ======================================================================
\* Heartbeat claims (checked under Spec)
\* ======================================================================
\* Every runHeartbeatOnce call the state shows: those in progress and the one
\* that returned last.
Frames == {cyc[id] : id \in DOMAIN cyc} \cup (IF last.pc = "done" THEN {last} ELSE {})

Count(tr, ev) == Cardinality({k \in 1..Len(tr) : tr[k] = ev})

NotifyWanted == hb.notifyOnRestart /\ hb.notifyCommand

ProbeWanted == hb.agentProbeEnabled /\ hb.agentProbeCommand

\* C1: in a cycle with a check command configured and N wait entries in which
\* no attempt was healthy, the check command is started exactly N times and the
\* restart command exactly once; no cycle ever starts more than N checks or
\* more than one restart.
C1_ChecksThenOneRestart ==
  \A f \in Frames :
    /\ Count(f.trace, "check") <= Len(waitSeconds)
    /\ Count(f.trace, "restart") <= 1
    /\ (hb.checkCommand /\ f.pc = "done" /\ Count(f.trace, "healthy") = 0)
         => /\ Count(f.trace, "check") = Len(waitSeconds)
            /\ Count(f.trace, "unhealthy") = Len(waitSeconds)
            /\ Count(f.trace, "restart") = 1

C1_Witness ==
  /\ last.pc = "done"
  /\ Len(waitSeconds) = 3
  /\ Count(last.trace, "unhealthy") = 3
  /\ Count(last.trace, "check") = 3
  /\ Count(last.trace, "restart") = 1

\* C2: a healthy attempt ends the cycle at once: the healthy verdict is the
\* last event of its cycle (no wait, check, probe, send, restart or notify
\* follows), the cycle has returned, and it ran no restart and no notify; when
\* the first attempt is healthy the cycle made exactly one check.
C2_HealthyEndsCycle ==
  \A f \in Frames :
    \A k \in 1..Len(f.trace) :
      f.trace[k] = "healthy" =>
        /\ k = Len(f.trace)
        /\ f.pc = "done"
        /\ Count(f.trace, "restart") = 0
        /\ Count(f.trace, "notify") = 0
        /\ (Count(f.trace, "unhealthy") = 0 => Count(f.trace, "check") = 1)

C2_Witness ==
  /\ last.pc = "done"
  /\ last.outcome = "healthy"
  /\ Len(waitSeconds) = 3
  /\ Count(last.trace, "check") = 1
  /\ Count(last.trace, "restart") = 0

\* C3: at most one heartbeat cycle is in progress at any time, the flag is set
\* exactly while one is, and every call of tick() either started a cycle at
\* once or was dropped for good (cycles started + ticks skipped = ticks fired,
\* so a skipped tick is never run later).
C3_OneCycleAtATime ==
  /\ Cardinality(DOMAIN cyc) <= 1
  /\ running <=> (DOMAIN cyc # {})
  /\ started + skipped = ticks
  /\ \A id \in DOMAIN cyc : id = started

C3_Witness ==
  /\ skipped > 0
  /\ Cardinality(DOMAIN cyc) = 1

\* C4: with the probe enabled and configured, the probe is started only
\* directly after a check that exited 0, an attempt is healthy only when the
\* check and then the probe exited 0, a failed check or failed probe makes the
\* attempt unhealthy; so a cycle whose checks all succeed and whose probes all
\* fail has N unhealthy attempts, one restart, and one notify exactly when
\* notify is enabled and configured.
C4_ProbeGatesHealth ==
  \A f \in Frames :
    /\ \A k \in 1..Len(f.trace) :
         /\ f.trace[k] = "probe" => (k > 1 /\ f.trace[k - 1] = "check-ok" /\ ProbeWanted)
         /\ (f.trace[k] = "check-ok" /\ ProbeWanted /\ k < Len(f.trace)) => f.trace[k + 1] = "probe"
         /\ (f.trace[k] = "healthy" /\ ProbeWanted) =>
               (k > 3 /\ f.trace[k - 1] = "probe-ok" /\ f.trace[k - 3] = "check-ok")
         /\ (f.trace[k] \in {"check-fail", "probe-fail"} /\ k < Len(f.trace)) =>
               f.trace[k + 1] = "unhealthy"
    /\ (/\ ProbeWanted /\ hb.checkCommand /\ f.pc = "done"
        /\ Count(f.trace, "check-fail") = 0 /\ Count(f.trace, "probe-ok") = 0)
         => /\ Count(f.trace, "unhealthy") = Len(waitSeconds)
            /\ Count(f.trace, "probe-fail") = Len(waitSeconds)
            /\ Count(f.trace, "restart") = 1
            /\ Count(f.trace, "notify") = (IF NotifyWanted THEN 1 ELSE 0)

C4_Witness ==
  /\ last.pc = "done"
  /\ ProbeWanted /\ NotifyWanted
  /\ Len(waitSeconds) = 3
  /\ Count(last.trace, "check-ok") = 3
  /\ Count(last.trace, "probe-fail") = 3
  /\ Count(last.trace, "restart") = 1
  /\ Count(last.trace, "notify") = 1

\* C5: the notify command is started at most once per cycle and only directly
\* after the restart command of that cycle has closed; a cycle that has got
\* past its restart command has started notify exactly when notifyOnRestart is
\* set and a notify command is configured, whatever the restart's exit code;
\* a cycle without a restart has no notify.
C5_NotifyOnceAfterRestart ==
  \A f \in Frames :
    /\ Count(f.trace, "notify") <= 1
    /\ \A k \in 1..Len(f.trace) :
         f.trace[k] = "notify" => (k > 1 /\ f.trace[k - 1] = "restart" /\ k = Len(f.trace))
    /\ f.pc = "restart" => Count(f.trace, "notify") = 0
    /\ (Count(f.trace, "restart") = 1 /\ f.pc # "restart")
         => (Count(f.trace, "notify") = 1 <=> NotifyWanted)
    /\ Count(f.trace, "restart") = 0 => Count(f.trace, "notify") = 0
    /\ f.pc = "done" => (Count(f.trace, "notify") = 1 <=> (Count(f.trace, "restart") = 1 /\ NotifyWanted))

C5_Witness ==
  \E id \in DOMAIN cyc :
    /\ cyc[id].pc = "notify"
    /\ cyc[id].rc = <<1>>
    /\ Count(cyc[id].trace, "notify") = 1

\* C12: a heartbeat cycle that ended with an exception leaves the process
\* running and the loop alive: the interval timer is installed and the next
\* tick starts a new cycle.
C12_CycleErrorKeepsLoopAlive ==
  last.pc = "threw" => hbLoop = "interval"

\* C21 as stated: every tick is called exactly one interval after the tick
\* before it was called, the second tick after the first included.
C21_FixedIntervalFromTickStart ==
  \A k \in 1..Len(tickTimes) - 1 : tickTimes[k + 1] = tickTimes[k] + Interval

\* C21 amended: the interval timer is installed when the first tick() has
\* settled, so the second tick is called one interval after the first cycle
\* ended; every later tick is called exactly one interval after the tick
\* before it was called, however long that tick's cycle ran.
C21_IntervalFromFirstCycleEnd ==
  /\ [](/\ \A k \in 2..Len(tickTimes) - 1 : tickTimes[k + 1] = tickTimes[k] + Interval
        /\ Len(tickTimes) >= 2 => tickTimes[2] >= tickTimes[1] + Interval
        /\ hbLoop = "first" => hbTimer = NoTimer)
  /\ [][/\ (hbLoop = "first" /\ hbLoop' = "interval") => hbTimer' = hbNow + Interval
        /\ Len(tickTimes') > Len(tickTimes) /\ tickTimes # <<>> =>
              /\ hbNow = hbTimer
              /\ tickTimes' = Append(tickTimes, hbNow)
              /\ hbTimer' = hbNow + Interval]_vars

\* The first cycle ran for three clock units: the second tick came five
\* units after the first, the third one interval after the second, while the
\* second tick's cycle was still running.
C21_Witness ==
  /\ tickTimes = <<0, MaxCycleTime + Interval, MaxCycleTime + 2 * Interval>>
  /\ skipped = 1

\* The number of events ev among the first k events of a trace.
CountUpTo(tr, k, ev) == Cardinality({j \in 1..k : tr[j] = ev})

\* C19: without a send command no send is ever run. With one, send is the
\* first event of the cycle; every other send directly follows an unhealthy
\* attempt that was not the last wait entry's, and every such attempt is
\* directly followed by a send; every send is followed by a sleep and every
\* sleep by the check, so the k-th check comes after the k-th send and the
\* k-th sleep, and the sleeps take the wait entries in configured order. A
\* cycle over N >= 1 entries whose attempts were all unhealthy ran send N
\* times.
C19_SendBeforeEachWait ==
  \A f \in Frames :
    /\ ~hb.sendCommand => Count(f.trace, "send") = 0
    /\ f.slept = SubSeq(waitSeconds, 1, Len(f.slept))
    /\ Len(f.slept) = Count(f.trace, "sleep")
    /\ \A k \in 1..Len(f.trace) :
         /\ f.trace[k] = "check" =>
               /\ k > 1 /\ f.trace[k - 1] = "sleep"
               /\ CountUpTo(f.trace, k, "sleep") = CountUpTo(f.trace, k, "check")
               /\ hb.sendCommand =>
                    /\ k > 2 /\ f.trace[k - 2] = "send"
                    /\ CountUpTo(f.trace, k, "send") = CountUpTo(f.trace, k, "check")
         /\ (f.trace[k] = "sleep" /\ k < Len(f.trace)) => f.trace[k + 1] = "check"
         /\ (f.trace[k] = "send" /\ k < Len(f.trace)) =>
               f.trace[k + 1] = (IF Len(waitSeconds) = 0 THEN "restart" ELSE "sleep")
         /\ (f.trace[k] = "send" /\ k > 1) =>
               /\ f.trace[k - 1] = "unhealthy"
               /\ CountUpTo(f.trace, k, "unhealthy") < Len(waitSeconds)
         /\ (f.trace[k] = "unhealthy" /\ hb.sendCommand /\ k < Len(f.trace)
               /\ CountUpTo(f.trace, k, "unhealthy") < Len(waitSeconds)) =>
               f.trace[k + 1] = "send"
         /\ (f.trace[k] = "send" /\ k = 1) => hb.sendCommand
    /\ (hb.sendCommand /\ f.trace # <<>>) => f.trace[1] = "send"
    /\ (hb.sendCommand /\ Len(waitSeconds) >= 1 /\ Count(f.trace, "unhealthy") = Len(waitSeconds))
         => Count(f.trace, "send") = Len(waitSeconds)

\* A cycle over three wait entries whose checks all failed: three sends, the
\* sleeps of 30, 40 and 50 seconds, and the restart.
C19_Witness ==
  /\ last.pc = "done" /\ last.outcome = "restarted"
  /\ hb.sendCommand
  /\ last.slept = <<30, 40, 50>>
  /\ Count(last.trace, "send") = 3
  /\ Count(last.trace, "unhealthy") = 3

\* The frame of cycle id after a step.
After(id) == IF id \in DOMAIN cyc' THEN cyc'[id] ELSE last'

\* C13: whatever the exit code of the send, restart or notify command, the
\* cycle goes on the same way: after send to the wait at the current index (or
\* to restart when there is no wait entry), after restart to notify when it is
\* wanted and else to a normal return, after notify to a normal return. A
\* restart is started only after as many unhealthy attempts as there are wait
\* entries, and a cycle ends healthy only right after a healthy verdict.
C13_CommandFailureKeepsFlow ==
  /\ [][\A id \in DOMAIN cyc :
          (cyc[id].pc \in {"send", "restart", "notify"} /\ After(id) # cyc[id]
             /\ After(id).pc # "threw")
          => /\ After(id).rc \in {<<0>>, <<1>>}
             /\ After(id).i = cyc[id].i
             /\ cyc[id].pc = "send" =>
                  After(id).pc = IF cyc[id].i < Len(waitSeconds) THEN "sleep" ELSE "restart"
             /\ cyc[id].pc = "restart" =>
                  IF NotifyWanted THEN After(id).pc = "notify"
                  ELSE After(id).pc = "done" /\ After(id).outcome = "restarted"
             /\ cyc[id].pc = "notify" =>
                  After(id).pc = "done" /\ After(id).outcome = "restarted"]_vars
  /\ [](\A f \in Frames :
          /\ Count(f.trace, "restart") > 0 => Count(f.trace, "unhealthy") = Len(waitSeconds)
          /\ f.outcome = "healthy" => f.trace[Len(f.trace)] = "healthy"
          /\ f.outcome \in {None, "nocheck", "healthy", "restarted"})

\* The send command failed and the cycle is in its first wait.
C13_Witness ==
  \E id \in DOMAIN cyc :
    /\ cyc[id].pc = "sleep"
    /\ cyc[id].rc = <<1>>
    /\ cyc[id].trace = <<"send", "sleep">>

\* ======================================================================
\* Daemon claims (checked under SpecDaemon)
\* ======================================================================
Watchdogs == {p \in Pids : procs[p] = "warden"}

\* C6: a daemon:start that read a record whose pid is held by a live process
\* of the caller (the watchdog an earlier start spawned, or any process the
\* caller may signal) when it probes it returns at that point reporting
\* "already running": it
\* spawns nothing and leaves the record and the processes as they are.
C6_StartIdempotentWhileAlive ==
  [][\A n \in Invocations :
       (/\ inv[n].cmd = "start" /\ inv[n].pc = "probe" /\ inv'[n] # inv[n]
        /\ inv[n].pid # NullPid /\ procs[inv[n].pid] \in Signalable)
         => /\ inv'[n].pc = "idle"
            /\ inv'[n].res = "already-running"
            /\ UNCHANGED <<pidFile, procs, spawned>>]_vars

\* Two daemon:start in a row: the first spawned the watchdog and recorded it,
\* the second found it alive; one background process runs.
C6_Witness ==
  /\ \E n \in Invocations : inv[n].pc = "idle" /\ inv[n].res = "already-running"
  /\ spawned = 1
  /\ ops = 2
  /\ pidFile # <<>>
  /\ Watchdogs = {ParsePid(pidFile)}

\* C15: a daemon:stop that read a pid from the record calls process.kill(pid,
\* SIGTERM) once, for that pid, then deletes the record and reports "stopped";
\* one that read no pid sends no signal, leaves the record and the processes
\* as they are and reports "not found".
C15_StopSignalsOnceAndClears ==
  [][\A n \in Invocations :
       (inv[n].cmd = "stop" /\ inv'[n] # inv[n] /\ inv[n].pc \in {"kill", "clear"}) =>
          /\ procs' = procs /\ spawned' = spawned
          /\ (inv[n].pc = "kill" /\ inv[n].pid = NullPid) =>
                /\ UNCHANGED <<pidFile, signals>>
                /\ inv'[n].pc = "idle" /\ inv'[n].res = "not-found"
          /\ (inv[n].pc = "kill" /\ inv[n].pid # NullPid) =>
                /\ signals' = Append(signals, [pid |-> inv[n].pid, to |-> procs[inv[n].pid]])
                /\ pidFile' = pidFile
                /\ inv'[n].pc = "clear"
          /\ inv[n].pc = "clear" =>
                /\ pidFile' = <<>>
                /\ signals' = signals
                /\ inv'[n].pc = "idle" /\ inv'[n].res = "stopped"]_vars

\* A stop signalled the watchdog and deleted the record; the stop run right
\* after it found no record and sent nothing.
C15_Witness ==
  /\ inv[1].cmd = "stop" /\ inv[1].res = "stopped" /\ inv[1].pc = "idle"
  /\ inv[2].cmd = "stop" /\ inv[2].res = "not-found" /\ inv[2].pc = "idle"
  /\ Len(signals) = 1 /\ signals[1].to = "warden" /\ signals[1].pid = inv[1].pid
  /\ pidFile = <<>>
  /\ ops = 2

\* C20: daemonStart's read, probe, spawn and write are separate steps and none
\* looks at what another invocation did in between: a start whose probe finds
\* the pid it read earlier null or dead goes on to spawn whatever the record
\* holds by then, its spawn adds one watchdog, and its write replaces the
\* record by its own child's pid; so with two watchdogs alive the record names
\* at most one of them.
C20_StartNotAtomic ==
  /\ [][\A n \in Invocations :
          (inv[n].cmd = "start" /\ inv'[n] # inv[n]) =>
             /\ (inv[n].pc = "probe" /\ (inv[n].pid = NullPid \/ procs[inv[n].pid] = "none"))
                   => (inv'[n].pc = "spawn" /\ UNCHANGED <<pidFile, procs, spawned>>)
             /\ inv[n].pc = "spawn" =>
                   /\ spawned' = spawned + 1
                   /\ procs[inv'[n].pid] = "none"
                   /\ procs' = [procs EXCEPT ![inv'[n].pid] = "warden"]
                   /\ pidFile' = pidFile
                   /\ inv'[n].pc = "write"
             /\ inv[n].pc = "write" =>
                   /\ pidFile' = PidText(inv[n].pid)
                   /\ inv'[n].pc = "idle" /\ inv'[n].res = "started"]_vars
  /\ [](Cardinality(Watchdogs) >= 2 => Watchdogs \ {ParsePid(pidFile)} # {})

\* Two simultaneous starts: both read the absent record before either wrote
\* it, both spawned; two watchdogs are alive and the record names the second.
C20_Witness ==
  /\ ops = 2 /\ spawned = 2
  /\ \A n \in Invocations : inv[n].cmd = "start" /\ inv[n].pc = "idle" /\ inv[n].res = "started"
  /\ inv[1].pid # inv[2].pid
  /\ Watchdogs = {inv[1].pid, inv[2].pid}
  /\ pidFile = PidText(inv[2].pid)
  /\ \A p \in Pids : procs[p] # "other"

\* C22 as stated: whenever the recorded pid is held by an unrelated process,
\* start reports "already running" and spawns nothing, status reports
\* "running", and stop signals that pid and deletes the record.
C22_AnyOccupantCountsAsAlive ==
  [][\A n \in Invocations :
       (inv'[n] # inv[n] /\ inv[n].pid # NullPid /\ procs[inv[n].pid] \in {"other", "foreign"}) =>
          /\ (inv[n].cmd = "start" /\ inv[n].pc = "probe") =>
                (inv'[n].res = "already-running" /\ spawned' = spawned)
          /\ (inv[n].cmd = "status" /\ inv[n].pc = "probe") => inv'[n].res = "running"
          /\ (inv[n].cmd = "stop" /\ inv[n].pc = "kill") =>
                signals' = Append(signals, [pid |-> inv[n].pid, to |-> procs[inv[n].pid]])
          /\ (inv[n].cmd = "stop" /\ inv[n].pc = "clear") => pidFile' = <<>>]_vars

\* C22 amended: the probe succeeds for any process of the recorded pid that
\* the caller may signal, the watchdog or not: then start reports "already
\* running" and spawns nothing, status reports "running", and stop's SIGTERM
\* goes to that process. For a process of another user the probe fails like
\* for a dead one: start goes on to spawn, status reports "not running", and
\* stop's kill throws. Stop deletes the record in either case.
C22_SignalableOccupantCountsAsAlive ==
  [][\A n \in Invocations :
       (inv'[n] # inv[n] /\ inv[n].pid # NullPid /\ procs[inv[n].pid] \in {"other", "foreign"}) =>
          /\ (inv[n].cmd = "start" /\ inv[n].pc = "probe") =>
                IF procs[inv[n].pid] = "other"
                  THEN inv'[n].pc = "idle" /\ inv'[n].res = "already-running"
                       /\ UNCHANGED <<pidFile, procs, spawned>>
                  ELSE inv'[n].pc = "spawn"
          /\ (inv[n].cmd = "status" /\ inv[n].pc = "probe") =>
                inv'[n].res = (IF procs[inv[n].pid] = "other" THEN "running" ELSE "not-running")
          /\ (inv[n].cmd = "stop" /\ inv[n].pc = "kill") =>
                /\ signals' = Append(signals, [pid |-> inv[n].pid, to |-> procs[inv[n].pid]])
                /\ inv'[n].pc = "clear"
          /\ (inv[n].cmd = "stop" /\ inv[n].pc = "clear") =>
                (pidFile' = <<>> /\ inv'[n].res = "stopped")]_vars

\* The watchdog is gone and an unrelated process of the same user holds the
\* recorded pid: start reported "already running", stop signalled that
\* process and deleted the record; no watchdog runs.
C22_Witness ==
  /\ inv[1].cmd = "start" /\ inv[1].pc = "idle" /\ inv[1].res = "already-running"
  /\ inv[2].cmd = "stop" /\ inv[2].pc = "idle" /\ inv[2].res = "stopped"
  /\ signals = <<[pid |-> inv[1].pid, to |-> "other"]>>
  /\ procs[inv[1].pid] = "other"
  /\ Watchdogs = {} /\ spawned = 0
  /\ pidFile = <<>>

\* C24: no step of daemon:status changes the record, the processes or sends
\* a signal; it reports "running" exactly when it read a pid from the record
\* and the probe start uses succeeds for it (a process the caller may signal
\* holds the pid), else "not running"; a record of a dead process stays.
C24_StatusReadOnly ==
  [][\A n \in Invocations :
       (inv[n].cmd = "status" /\ inv'[n] # inv[n] /\ inv[n].pc # "idle") =>
          /\ UNCHANGED <<pidFile, procs, spawned, signals>>
          /\ inv[n].pc = "read" => (inv'[n].pid = ParsePid(pidFile) /\ inv'[n].pc = "probe")
          /\ inv[n].pc = "probe" =>
                /\ inv'[n].pc = "idle"
                /\ inv'[n].res \in {"running", "not-running"}
                /\ inv'[n].res = "running" <=>
                     (inv[n].pid # NullPid /\ procs[inv[n].pid] \in Signalable)]_vars

\* status found the record of a dead process: it reported "not running" and
\* the record is still there.
C24_Witness ==
  /\ ops = 1
  /\ inv[1].cmd = "status" /\ inv[1].pc = "idle" /\ inv[1].res = "not-running"
  /\ pidFile = PidText(inv[1].pid)
  /\ procs[inv[1].pid] = "none"

\* ======================================================================
\* Config sync claims (checked under SpecSync)
\* ======================================================================
ValidationErrors == {"malformed", "schema-violation", "schema-missing"}

\* C7: a push whose validateConfig read a managed copy that is not well-formed
\* JSON or violates the schema never gets past validation: it ends with an
\* error, the live file has the content it had when the push started, and the
\* push has created no temporary file, written no file, run no git command
\* and made no commit.
C7_InvalidPushChangesNothing ==
  (sy.cmd = "push" /\ sy.raw \in {"malformed", "invalid"}) =>
     /\ sy.pc \in {"validate:schema", "idle"}
     /\ sy.pc = "idle" => sy.res \in ValidationErrors \cup {"killed"}
     /\ hist.did = {}
     /\ live = hist.liveAt

C7_Witness ==
  /\ sy.cmd = "push" /\ sy.pc = "idle"
  /\ sy.res = "schema-violation"
  /\ sy.raw = "invalid"
  /\ live = "A"
  /\ hist.did = {}

C9_CommitOnlyIfManagedChanged ==
  [][hist'.commits # hist.commits => repo.index # repo.head]_vars

GitSteps == {"git:init", "git:status", "git:add", "git:commit"}

\* C14: the version-control steps run only after the file update (the live
\* file for push, the managed copy for pull) has been made; when a git command
\* closes, whatever its exit code, the live file and the managed copy stay as
\* they are and the pull / push either goes on to the next git command or
\* returns normally, never with an error.
C14_GitFailureKeepsUpdate ==
  /\ [](sy.pc \in GitSteps =>
          /\ sync.gitEnabled
          /\ sy.cmd = "push" => "live" \in hist.did
          /\ sy.cmd = "pull" => "managed" \in hist.did)
  /\ [][(sy.pc \in GitSteps /\ sy' # sy /\ sy'.res # "killed") =>
          /\ live' = live
          /\ managed' = managed
          /\ tmp' = tmp
          /\ sy'.pc \in GitSteps \cup {"idle"}
          /\ sy'.pc = "idle" => sy'.res = "ok"]_vars

\* `git init` failed in a push: no repository, the live file has the new
\* content and the push returned normally.
C14_Witness ==
  /\ sy.cmd = "push" /\ sy.pc = "idle" /\ sy.res = "ok"
  /\ sync.gitEnabled /\ sync.autoInit /\ ~repo.exists
  /\ hist.did = {"tmp", "live", "git"}
  /\ live = "A" /\ hist.liveAt = "invalid"

\* C16: a pull started with no live file ends at once with the "live config
\* not found" error, having written no file and run no git command, and the
\* step leaves the managed copy, the temporary files and the repository as
\* they are; a pull started with a live file never changes it, and the step in
\* which its copyFile completes leaves the managed copy with the live file's
\* content.
C16_PullNeedsLiveFile ==
  /\ [](sy.cmd = "pull" =>
          /\ live = hist.liveAt
          /\ hist.liveAt = Absent <=> (sy.res = "live-missing")
          /\ sy.res = "live-missing" => (sy.pc = "idle" /\ hist.did = {}))
  /\ [][(sy'.cmd = "pull" /\ sy'.res = "live-missing" /\ sy' # sy) =>
          UNCHANGED <<live, managed, tmp, repo>>]_vars
  /\ [][(sy.cmd = "pull" /\ sy.pc = "copy:write" /\ sy' # sy /\ sy'.res # "killed") =>
          (managed' = live /\ live' = live /\ managed' \in Contents)]_vars

\* A pull is past its copy: the managed copy, which held something else, has
\* the live file's content.
C16_Witness ==
  /\ sy.cmd = "pull" /\ sy.pc = "git:status"
  /\ managed = "A" /\ live = "A"
  /\ repo.head = "invalid"
  /\ hist.did = {"managed"}

\* C17: a managed copy that is not well-formed JSON is reported as malformed,
\* whether or not the schema file exists, and validation ends there; a schema
\* violation is reported only for a well-formed copy checked against an
\* existing schema, and the error lists every violation of the copy; the
\* validate command succeeds for a well-formed conforming copy and only for one.
C17_ValidationErrorsDistinct ==
  (sy.cmd \in {"validate", "push"} /\ sy.raw # Absent) =>
     /\ ~WellFormed(sy.raw) <=> (sy.res = "malformed")
     /\ sy.res = "malformed" => sy.pc = "idle"
     /\ sy.res = "schema-missing" => (WellFormed(sy.raw) /\ sync.schema = "missing")
     /\ sy.res = "schema-violation" =>
          /\ WellFormed(sy.raw) /\ ~SchemaValid(sy.raw) /\ sync.schema = "present"
          /\ sy.listed = Violations(sy.raw) /\ Cardinality(sy.listed) > 1
     /\ (sy.cmd = "validate" /\ sy.res = "ok") => (WellFormed(sy.raw) /\ SchemaValid(sy.raw))
     /\ (sy.cmd = "validate" /\ sy.pc = "idle" /\ SchemaValid(sy.raw) /\ sync.schema = "present")
          => sy.res \in {"ok", "killed"}

\* validate of a well-formed copy that breaks the schema in two places: the
\* error lists both.
C17_Witness ==
  /\ sy.cmd = "validate" /\ sy.pc = "idle"
  /\ sy.res = "schema-violation"
  /\ sy.listed = {"v1", "v2"}

\* C18: whenever the live file is given a new content, that content is the
\* one the push's validateConfig read and accepted.
C18_LiveIsValidated ==
  [][live' # live => (live' = sy.raw /\ SchemaValid(live'))]_vars

\* C23: every commit the sync process makes holds exactly one file, the
\* managed copy, and its content differs from the last committed one, whatever
\* other files of the directory are changed or staged.
C23_CommitHoldsOnlyManagedCopy ==
  [][hist'.commits # hist.commits =>
       (hist'.lastCommit = {"managed"} /\ repo'.head # repo.head)]_vars

\* C10: after a completed pull and with no edit of the managed copy since, the
\* live file has, at every step of a following push and after it, whether its
\* validation passed or failed, the content it had before the pull.
C10_PullPushRoundTrip ==
  (sy.cmd = "push" /\ hist.pulled # Absent) => live = hist.pulled

C10_Witness ==
  /\ sy.cmd = "push" /\ sy.pc = "idle" /\ sy.res = "ok"
  /\ "live" \in hist.did
  /\ hist.pulled = "A"
  /\ live = "A"
  /\ hist.n = 2

\* ======================================================================
\* Watch mode claims (checked under SpecWatch)
\* ======================================================================
\* The notifications all belong to one burst: each follows the one before it
\* by less than the debounce window.
OneBurst ==
  /\ Notifications # {}
  /\ \A i, k \in Notifications :
       (i < k /\ \A j \in Notifications : ~(i < j /\ j < k))
          => events[k].t - events[i].t < DebounceMs

LastNotification == events[CHOOSE i \in Notifications : \A j \in Notifications : j <= i]

\* C11: no push starts between two notifications less than the debounce
\* window apart; a push starts only when the window has passed since the last
\* notification before it; and the notifications of one burst arm one timeout
\* that starts one push: it is either still armed or has fired once.
C11_DebounceCoalesces ==
  /\ \A i, k \in Notifications : \A j \in PushStarts :
       (i < j /\ j < k) => events[k].t - events[i].t >= DebounceMs
  /\ \A j \in PushStarts : \E i \in Notifications :
       /\ i < j
       /\ events[j].t >= events[i].t + DebounceMs
       /\ \A k \in Notifications : k < j => k <= i
  /\ OneBurst =>
       /\ Cardinality(PushStarts) + Cardinality(timers) = 1
       /\ timers = {} => \A i \in Notifications : \A j \in PushStarts : i < j
       /\ timers # {} => timers = {LastNotification.t + DebounceMs}

\* Three notifications 200 ms apart, then one push, 400 ms after the last.
C11_Witness ==
  /\ Cardinality(Notifications) = 3
  /\ OneBurst
  /\ Cardinality(PushStarts) = 1
  /\ events[Len(events)] = [kind |-> "push", t |-> LastNotification.t + DebounceMs]
  /\ timers = {}

PushFailed == \E i \in 1..Len(events) : events[i].kind = "failed"

\* C25: a push that fails in watch mode is caught: the process keeps its
\* watcher; after a failure every change notification still arms the
\* debounce timeout; and once a push has failed, a valid managed copy with a
\* push scheduled leads to the live file holding it, unless the managed copy
\* is edited again first.
C25_PushFailureKeepsWatching ==
  /\ []watching
  /\ [][(PushFailed /\ Cardinality(Notifications') > Cardinality(Notifications))
          => (timer' = now + DebounceMs /\ timer' \in timers')]_vars
  /\ (PushFailed /\ managed = "A" /\ timers # {}) ~> (live = "A" \/ managed # "A")

\* A push failed, a later one applied the edited, valid managed copy.
C25_Witness ==
  /\ watching
  /\ \E i, j \in 1..Len(events) :
        i < j /\ events[i].kind = "failed" /\ events[j].kind = "applied"
  /\ managed = "A"
  /\ live = "A"
  /\ hist.liveAt # "A"

\* C26: the probe is run only when it is enabled and has a command. With the
\* probe enabled and no command, and with the probe disabled, a check that
\* exited 0 makes its attempt healthy at once: the cycle has returned with no
\* probe, no restart and no notify.
C26_ProbeNeedsEnabledAndCommand ==
  \A f \in Frames :
    ~ProbeWanted =>
      /\ Count(f.trace, "probe") = 0
      /\ \A k \in 1..Len(f.trace) :
           f.trace[k] = "check-ok" =>
             /\ k + 1 = Len(f.trace)
             /\ f.trace[k + 1] = "healthy"
             /\ f.pc = "done"
             /\ f.outcome = "healthy"
             /\ Count(f.trace, "restart") = 0
             /\ Count(f.trace, "notify") = 0

\* Probe enabled, no probe command: the second check exits 0 and the cycle
\* ends healthy.
C26_Witness ==
  /\ hb.agentProbeEnabled /\ ~hb.agentProbeCommand
  /\ last.pc = "done"
  /\ last.outcome = "healthy"
  /\ Count(last.trace, "check-fail") = 1
  /\ Count(last.trace, "check-ok") = 1
  /\ Count(last.trace, "probe") = 0

\* C27: in run mode nothing excludes a push from a heartbeat cycle. The next
\* step of a cycle is enabled whatever the push is doing, the next step of a
\* push and the start of a due push are enabled whatever the heartbeat is
\* doing, and tick() consults only `running`: it starts a cycle unless a
\* cycle is in progress, a push in progress or not.
C27_NoExclusionBetweenHeartbeatAndPush ==
  /\ [](\A id \in DOMAIN cyc :
          /\ cyc[id].pc = "send" => ENABLED SendClose(id)
          /\ cyc[id].pc = "sleep" => ENABLED SleepDone(id)
          /\ cyc[id].pc = "check" => ENABLED CheckClose(id)
          /\ cyc[id].pc = "probe" => ENABLED ProbeClose(id)
          /\ cyc[id].pc = "restart" => ENABLED RestartClose(id)
          /\ cyc[id].pc = "notify" => ENABLED NotifyClose(id))
  /\ []((hbLoop \notin {"init", "exited"} /\ sy.pc # "idle") => ENABLED PushStep)
  /\ []((hbLoop \notin {"init", "exited"} /\ pushing = 0 /\ \E d \in timers : now >= d)
          => ENABLED (\E d \in timers : TimerFires(d)))
  /\ [][ticks' = ticks + 1 =>
          IF running THEN skipped' = skipped + 1 /\ started' = started
                     ELSE started' = started + 1 /\ skipped' = skipped]_vars

\* The push has written the live file and is about to commit while the
\* heartbeat cycle runs its restart command.
C27_Witness ==
  /\ running
  /\ \E id \in DOMAIN cyc : cyc[id].pc = "restart"
  /\ sy.cmd = "push"
  /\ sy.pc = "git:commit"
  /\ live = managed

\* C28: when a cycle has ended, by return or by exception, the guard flag is
\* false; a tick is dropped only while a cycle is in fact in progress, so a
\* cycle that threw leaves no flag behind that drops later ticks.
C28_GuardReleasedOnReturnAndThrow ==
  /\ [](DOMAIN cyc = {} => ~running)
  /\ [](last.pc \in {"done", "threw"} => (running <=> DOMAIN cyc # {}))
  /\ [][skipped' = skipped + 1 => (DOMAIN cyc # {} /\ cyc' = cyc)]_vars

\* A cycle has ended with an exception and the flag is false.
C28_Witness ==
  /\ last.pc = "threw"
  /\ DOMAIN cyc = {}
  /\ ~running
  /\ started >= 1

\* C29: with a check command and waitSeconds = [], a cycle sleeps and checks
\* zero times, observes no verdict, and runs the restart command once (after
\* the one send, when a send command is configured), then notify exactly when
\* notify is enabled and configured.
C29_EmptyWaitsStillRestart ==
  \A f \in Frames :
    (hb.checkCommand /\ Len(waitSeconds) = 0) =>
      /\ Count(f.trace, "sleep") = 0
      /\ Count(f.trace, "check") = 0
      /\ Count(f.trace, "unhealthy") = 0
      /\ Count(f.trace, "healthy") = 0
      /\ Count(f.trace, "send") = (IF hb.sendCommand THEN 1 ELSE 0)
      /\ f.pc \in {"restart", "notify", "done"} => Count(f.trace, "restart") = 1
      /\ f.pc = "done" =>
           /\ f.outcome = "restarted"
           /\ Count(f.trace, "notify") = (IF NotifyWanted THEN 1 ELSE 0)

\* waitSeconds = []: a finished cycle with no check, one restart, one notify.
C29_Witness ==
  /\ hb.checkCommand /\ hb.waitSeconds.isArray /\ Len(waitSeconds) = 0
  /\ NotifyWanted
  /\ last.pc = "done"
  /\ Count(last.trace, "check") = 0
  /\ Count(last.trace, "restart") = 1
  /\ Count(last.trace, "notify") = 1

\* C30: without a check command every cycle returns at once, having started
\* no subprocess (its trace is empty); no cycle is ever left in progress, no
\* tick is dropped, the process does not exit, and after the first tick the
\* interval timer is armed, so every tick runs such a cycle.
C30_NoCheckCommandNoSubprocess ==
  ~hb.checkCommand =>
    /\ \A f \in Frames : f.trace = <<>> /\ f.rc = <<>> /\ f.pc = "done" /\ f.outcome = "nocheck"
    /\ DOMAIN cyc = {}
    /\ ~running
    /\ skipped = 0 /\ started = ticks
    /\ hbLoop \in {"init", "interval"}
    /\ ticks >= 1 => (hbLoop = "interval" /\ hbTimer # NoTimer /\ last.outcome = "nocheck")

\* Three ticks without a check command: three cycles, each returned at once.
C30_Witness ==
  /\ ~hb.checkCommand
  /\ hb.sendCommand /\ NotifyWanted
  /\ ticks = MaxTicks
  /\ started = MaxTicks
  /\ last.outcome = "nocheck"
  /\ last.trace = <<>>

\* C31: daemonStop ends no process and waits for none: its signal step leaves
\* every process as it was and goes on to the deletion whether or not the
\* signal could be sent, and the deletion removes the record and reports
\* "stopped" whatever holds the pid. A daemonStart that read no record then
\* spawns, whatever processes are alive.
C31_StopDoesNotWaitForExit ==
  [][\A n \in Invocations :
       /\ (inv[n].cmd = "stop" /\ inv[n].pc \in {"kill", "clear"} /\ inv'[n] # inv[n]) =>
            /\ procs' = procs
            /\ (inv[n].pc = "kill" /\ inv[n].pid # NullPid) => inv'[n].pc = "clear"
            /\ inv[n].pc = "clear" =>
                 (pidFile' = <<>> /\ inv'[n].pc = "idle" /\ inv'[n].res = "stopped")
       /\ (inv[n].cmd = "start" /\ inv[n].pc = "probe" /\ inv[n].pid = NullPid
             /\ inv'[n] # inv[n]) => inv'[n].pc = "spawn"]_vars

\* One terminal ran stop and then start: the watchdog that was signalled is
\* still alive, next to the one the start spawned and recorded.
C31_Witness ==
  /\ inv[2] = IdleInvocation
  /\ ops = 2
  /\ inv[1].pc = "idle" /\ inv[1].res = "started"
  /\ Len(signals) = 1 /\ signals[1].to = "warden"
  /\ procs[signals[1].pid] = "warden"
  /\ pidFile = PidText(inv[1].pid)
  /\ inv[1].pid # signals[1].pid
  /\ procs[inv[1].pid] = "warden"
  /\ spawned = 1

\* C33: a daemonStart whose record was absent or named a dead process goes on
\* to spawn; from there it starts exactly one process (its spawn step adds one
\* watchdog under a pid that was free, its other steps start none), and its
\* last step replaces the record, whatever it held, by text that reads back
\* as the pid of that child, and reports "started".
C33_StaleRecordIsReplaced ==
  [][\A n \in Invocations :
       (inv[n].cmd = "start" /\ inv'[n] # inv[n]) =>
          /\ (inv[n].pc = "probe" /\ (inv[n].pid = NullPid \/ procs[inv[n].pid] = "none"))
                => inv'[n].pc = "spawn"
          /\ inv[n].pc \in {"read", "probe", "write"} => (spawned' = spawned /\ procs' = procs)
          /\ inv[n].pc = "spawn" =>
                /\ spawned' = spawned + 1
                /\ inv'[n].pid \notin Watchdogs
                /\ {q \in Pids : procs'[q] = "warden"} = Watchdogs \cup {inv'[n].pid}
          /\ inv[n].pc = "write" =>
                /\ inv'[n].pid = inv[n].pid
                /\ ParsePid(pidFile') = inv[n].pid
                /\ inv'[n].pc = "idle" /\ inv'[n].res = "started"
          /\ inv'[n].res = "started" => inv[n].pc = "write"]_vars

\* One daemon:start, alone, over an absent record or one that named a dead
\* process: it has returned, one watchdog runs and the record names it.
C33_Witness ==
  /\ ops = 1 /\ spawned = 1
  /\ inv[1].cmd = "start" /\ inv[1].pc = "idle" /\ inv[1].res = "started"
  /\ Watchdogs = {inv[1].pid}
  /\ \A q \in Pids \ {inv[1].pid} : procs[q] = "none"
  /\ ParsePid(pidFile) = inv[1].pid

\* C32: the debounce does not serialize pushes. A notification arms the
\* timeout whether or not a push is running, and touches no push in flight;
\* a due timeout can fire while earlier pushes run (up to the number
\* explored), and then starts a new syncPush next to them, which stay as they
\* were; and every push in flight can take its next step, in any order.
C32_PushesNotSerialized ==
  /\ [][Cardinality(Notifications') > Cardinality(Notifications) =>
          /\ timer' = now + DebounceMs /\ timer' \in timers'
          /\ UNCHANGED <<sy, parked, pushing>>]_vars
  /\ []((watching /\ pushing < MaxPushes /\ \E d \in timers : now >= d)
          => ENABLED (\E d \in timers : TimerFires(d)))
  /\ [][(pushing' = pushing + 1 /\ pushing >= 1) =>
          /\ parked' = Append(parked, sy)
          /\ sy'.cmd = "push" /\ sy'.pc = "validate:read"]_vars
  /\ [](sy.pc # "idle" => ENABLED PushStep)
  /\ [](\A i \in 1..Len(parked) : parked[i].pc # "idle" => ENABLED Switch(i))

\* Two pushes in flight: the first is committing while the second, started by
\* a notification that arrived during the first, is about to replace the
\* live file.
C32_Witness ==
  /\ pushing = 2
  /\ Len(parked) = 1
  /\ parked[1].pc = "git:commit"
  /\ sy.pc = "copy:rename"
  /\ \E i, j, k \in 1..Len(events) :
        /\ i < j /\ j < k
        /\ events[i].kind = "push" /\ events[j].kind = "note" /\ events[k].kind = "push"
        /\ \A m \in i..k : events[m].kind \in {"push", "note"}

\* C34: in run mode no tick has been called before the watcher is installed;
\* when watchConfig finds no managed copy the process exits there and then,
\* and a process that exited without a watcher has run no heartbeat cycle and
\* no subprocess, and never will.
C34_WatcherFailureAbortsRun ==
  /\ [](ticks > 0 => watching)
  /\ [][(hbLoop = "init" /\ ~watching /\ managed = Absent) =>
          (hbLoop' = "exited" /\ ~watching')]_vars
  /\ []((hbLoop = "exited" /\ ~watching) =>
          /\ ticks = 0 /\ started = 0
          /\ DOMAIN cyc = {} /\ last = NoFrame
          /\ pushing = 0 /\ events = <<>>)
  /\ [][(hbLoop = "exited" /\ ~watching) => UNCHANGED vars]_vars

\* `run` with no managed copy: the process has exited before the first tick.
C34_Witness ==
  /\ managed = Absent
  /\ hbLoop = "exited"
  /\ ~watching
  /\ ticks = 0
  /\ last = NoFrame
====
